---- MODULE Spec2Model ----
(***************************************************************************)
(* Model of the block scanner service (internal/svc/blk_scanner.go).       *)
(*                                                                         *)
(* The scanner is one goroutine (run) that loops over a non-blocking       *)
(* select, scanNext, checkTarget and checkIdle.  Its position is pc.       *)
(* The environment is the repository (CurrentHead, LastSeenBlockNumber,    *)
(* PullHeader), the consumer of outBlocks, the watcher that feeds          *)
(* inObservedBlocks, the listener of outStateChange and the manager that   *)
(* calls close().                                                          *)
(*                                                                         *)
(* Go's select is modelled as Go runs it: among the cases that are ready   *)
(* one is chosen without priority; default is taken only if none is ready; *)
(* a goroutine parked in a select is resumed by the first channel          *)
(* operation of another goroutine that matches one of its cases.           *)
(* The tickers are not given a clock: a tick may or may not be pending     *)
(* whenever the loop polls.                                                *)
(***************************************************************************)
EXTENDS Integers, Sequences, FiniteSets, TLC

\* ------------------------------------------------------------ constants

blkIsScanning == 0

blkIsIdling == 1

defStartingBlockNumber == 16000000

blkScannerHysteresis == 10

\* Capacity of sigStop: make(chan bool, 1).
sigStopCapacity == 1

\* current and target are uint64.  TLC's integers are 32 bits wide, so the
\* unsigned arithmetic is kept but with a 30 bit word: every height of the
\* model is below 2^30 and target - current wraps as it does in the code.
UintMod == 2^30

USub(a, b) == (a - b) % UintMod

UAdd(a, b) == (a + b) % UintMod

\* --------------------------------------------------------------- bounds

\* Capacity of outBlocks (outBlockQueueCapacity is set outside these files).
outBlockQueueCapacity == 2

\* PullHeader succeeds at most this many times in a run; after that it fails.
MaxEmit == 4

\* --------------------------------------------------------------- inputs

Ok(v) == [ok |-> TRUE, val |-> v]

Err == [ok |-> FALSE, val |-> 0]

\* What LastSeenBlockNumber may return: an error, 0 (unknown), a checkpoint.
LastSeenResults == {Err, Ok(0), Ok(16005000)}

\* What CurrentHead may return: an error or a head height.
HeadResults == {Err, Ok(15999990), Ok(16000004), Ok(16005003), Ok(16005013)}

\* Heights the live block watcher may report.
ObservedHeights == {16000002, 16005001}

VARIABLES
    pc,               \* position of the run goroutine
    state,            \* bs.state
    current,          \* bs.current
    target,           \* bs.target
    hdr,              \* scanNext's hdr: <<>> or <<height>>
    sigStop,          \* number of signals buffered in bs.sigStop
    outBlocks,        \* heights of the headers queued in bs.outBlocks
    inObservedBlocks, \* the block id pending on bs.inObservedBlocks, if any
    delivered,        \* states received by the outStateChange listener (last one)
    registered,       \* bs.mgr.add(bs) was called
    mgrClosed,        \* number of bs.mgr.closed(bs) calls
    closeCalled,      \* close() was called
    lnb,              \* what LastSeenBlockNumber returned to start()
    nEmit,            \* history: number of headers put on outBlocks
    lastEmit,         \* history: height of the last header put on outBlocks
    samePhase,        \* history: lastEmit was emitted in the present scanning phase
    fwdSince,         \* history: an observed block moved current since lastEmit
    pullFailed,       \* history: some PullHeader call failed
    clean,            \* history: no repository call failed, the head never fell,
                      \*          no transition was taken on a wrapped diff
    stopParked,       \* history: close() found the scanner parked in scanNext
    lastFail,         \* history: <<h, moved>> after PullHeader(h) failed, until the next
                      \*          fetch; moved: an observed block moved current since
    lastHead,         \* history: what the last CurrentHead call returned
    wrapFlip,         \* history: a transition was taken on a wrapped diff
    steady,           \* history: current <= target at the start, and every
                      \*          CurrentHead call succeeded with a head no lower
    scn               \* history: the run is the 16,005,000 / 16,005,003 scenario

vars == <<pc, state, current, target, hdr, sigStop, outBlocks, inObservedBlocks,
          delivered, registered, mgrClosed, closeCalled, lnb, nEmit, lastEmit,
          samePhase, fwdSince, pullFailed, clean, stopParked, lastFail,
          lastHead, wrapFlip, steady, scn>>

cursor == <<state, current, target>>

chans == <<sigStop, outBlocks, inObservedBlocks, delivered>>

mgr == <<registered, mgrClosed, closeCalled>>

emits == <<nEmit, lastEmit, samePhase, fwdSince>>

hist == <<lnb, pullFailed, clean, stopParked, lastFail, lastHead, wrapFlip, steady,
         scn>>

\* ------------------------------------------------------- pure functions

\* top(): the end target of the scanner
top(r) == IF ~r.ok THEN 0 ELSE r.val

\* start with a fault: a failed read falls back to the default starting block.
start_ErrDefault(r) == IF ~r.ok \/ r.val = 0 THEN defStartingBlockNumber ELSE r.val

\* start with a fault: the default starting block is forgotten.
start_NoDefault(r) == IF ~r.ok THEN 0 ELSE r.val

\* start(): the starting point of the scanner
start(r) ==
    IF ~r.ok THEN 0
    ELSE IF r.val = 0 THEN defStartingBlockNumber
    ELSE r.val

\* FastForward with a fault: the observed block is taken whatever the state.
FastForward_AnyState(st, cur, bid) == IF bid > cur THEN bid ELSE cur

\* FastForward with a fault: the observed block is taken even if it is behind.
FastForward_Rewind(st, cur, bid) == IF st = blkIsIdling THEN bid ELSE cur

\* run's case bid := <-bs.inObservedBlocks
FastForward(st, cur, bid) == IF st = blkIsIdling /\ bid > cur THEN bid ELSE cur

\* CanScan with a fault: the height of the target is scanned too.
CanScan_Inclusive(st, cur, tg) == st = blkIsScanning /\ cur <= tg

\* scanNext's guard
CanScan(st, cur, tg) == st = blkIsScanning /\ cur < tg

\* NextCurrent with a fault: the cursor skips a height.
NextCurrent_Skip(cur) == UAdd(cur, 2)

\* bs.current += 1
NextCurrent(cur) == UAdd(cur, 1)

\* checkTarget's guard
TargetPassed(st, cur, tg) == st = blkIsScanning /\ cur > tg

\* checkTarget's test on diff := bs.target - bs.current
ReachedHead(diff) == diff >= 0 /\ diff < blkScannerHysteresis

\* LostHead with a fault: the boundary is inclusive.
LostHead_Inclusive(diff) == diff >= blkScannerHysteresis

\* checkIdle's test on diff := bs.target - bs.current
LostHead(diff) == diff > blkScannerHysteresis

\* Notify with a fault: the state is handed over whether or not a listener waits.
Notify_Always(ready, st, old) == st

\* select { case bs.outStateChange <- bs.state: default: }
Notify(ready, st, old) == IF ready THEN st ELSE old

\* ----------------------------------------------------------------- Init

Init ==
    /\ pc = "new"
    /\ state = blkIsScanning
    /\ current = 0
    /\ target = 0
    /\ hdr = <<>>
    /\ sigStop = 0
    /\ outBlocks = <<>>
    /\ inObservedBlocks = <<>>
    /\ delivered = <<>>
    /\ registered = FALSE
    /\ mgrClosed = 0
    /\ closeCalled = FALSE
    /\ lnb = Err
    /\ nEmit = 0
    /\ lastEmit = <<>>
    /\ samePhase = FALSE
    /\ fwdSince = FALSE
    /\ pullFailed = FALSE
    /\ clean = TRUE
    /\ stopParked = FALSE
    /\ lastFail = <<>>
    /\ lastHead = Err
    /\ wrapFlip = FALSE
    /\ steady = FALSE
    /\ scn = FALSE

\* ------------------------------------------------------------- scanner

\* init(): bs.current, bs.target = bs.start(), bs.top(); bs.mgr.add(bs)
init ==
    /\ pc = "new"
    /\ \E ls \in LastSeenResults, h \in HeadResults :
          /\ current' = start(ls)
          /\ target' = top(h)
          /\ lnb' = ls
          /\ scn' = (ls = Ok(16005000) /\ h = Ok(16005003))
          /\ clean' = (ls.ok /\ h.ok)
          /\ lastHead' = h
          /\ steady' = (h.ok /\ current' <= target')
    /\ registered' = TRUE
    /\ pc' = "top"
    /\ UNCHANGED <<state, hdr, chans, mgrClosed, closeCalled, emits, pullFailed,
                   stopParked, lastFail, wrapFlip>>

\* run: case <-bs.sigStop: return, and the deferred bs.mgr.closed(bs)
RunStop ==
    /\ pc = "top"
    /\ sigStop > 0
    /\ sigStop' = sigStop - 1
    /\ mgrClosed' = mgrClosed + 1
    /\ pc' = "done"
    /\ UNCHANGED <<cursor, hdr, outBlocks, inObservedBlocks, delivered, registered,
                   closeCalled, emits, hist>>

\* run: case <-tgTick.C: bs.target = bs.top()
RunTick ==
    /\ pc = "top"
    /\ \E h \in HeadResults :
          /\ target' = top(h)
          /\ scn' = (scn /\ h = Ok(16005003))
          /\ clean' = (clean /\ h.ok /\ h.val >= target)
          /\ lastHead' = h
          /\ steady' = (steady /\ h.ok /\ h.val >= target)
    /\ pc' = "scan"
    /\ UNCHANGED <<state, current, hdr, chans, mgr, emits, lnb, wrapFlip, pullFailed,
                   stopParked,
                   lastFail>>

\* run: case <-logTick.C: log.Infof(...)
RunLog ==
    /\ pc = "top"
    /\ pc' = "scan"
    /\ UNCHANGED <<cursor, hdr, chans, mgr, emits, hist>>

\* run: case bid := <-bs.inObservedBlocks
RunObserved ==
    /\ pc = "top"
    /\ inObservedBlocks # <<>>
    /\ current' = FastForward(state, current, inObservedBlocks[1])
    /\ fwdSince' = (fwdSince \/ current' # current)
    /\ lastFail' = IF lastFail # <<>> /\ current' # current
                   THEN <<lastFail[1], TRUE>> ELSE lastFail
    /\ inObservedBlocks' = <<>>
    /\ pc' = "scan"
    /\ UNCHANGED <<state, target, hdr, sigStop, outBlocks, delivered, mgr, nEmit,
                   lastEmit, samePhase, lnb, wrapFlip, pullFailed, clean, stopParked, lastHead,
                   steady, scn>>

\* run: default (no case is ready)
RunDefault ==
    /\ pc = "top"
    /\ sigStop = 0
    /\ inObservedBlocks = <<>>
    /\ pc' = "scan"
    /\ UNCHANGED <<cursor, hdr, chans, mgr, emits, hist>>

\* scanNext: the guard is false
ScanSkip ==
    /\ pc = "scan"
    /\ ~CanScan(state, current, target)
    /\ hdr' = <<>>
    /\ pc' = "chkT"
    /\ UNCHANGED <<cursor, chans, mgr, emits, hist>>

\* scanNext: PullHeader(bs.current) returns the header
PullOk ==
    /\ pc = "scan"
    /\ CanScan(state, current, target)
    /\ nEmit < MaxEmit
    /\ hdr' = <<current>>
    /\ lastFail' = <<>>
    /\ pc' = "send"
    /\ UNCHANGED <<cursor, chans, mgr, emits, lnb, wrapFlip, pullFailed, clean, stopParked,
                   lastHead, steady, scn>>

\* PullFail with a fault: the height that could not be fetched is passed over.
PullFail_Skip ==
    /\ pc = "scan"
    /\ CanScan(state, current, target)
    /\ hdr' = <<>>
    /\ current' = NextCurrent(current)
    /\ pullFailed' = TRUE
    /\ clean' = FALSE
    /\ scn' = FALSE
    /\ lastFail' = <<current, FALSE>>
    /\ pc' = "wait"
    /\ UNCHANGED <<state, target, chans, mgr, emits, lnb, wrapFlip, stopParked, lastHead,
                   steady>>

\* scanNext: PullHeader(bs.current) returns an error
PullFail ==
    /\ pc = "scan"
    /\ CanScan(state, current, target)
    /\ hdr' = <<>>
    /\ pullFailed' = TRUE
    /\ clean' = FALSE
    /\ scn' = FALSE
    /\ lastFail' = <<current, FALSE>>
    /\ pc' = "wait"
    /\ UNCHANGED <<cursor, chans, mgr, emits, lnb, wrapFlip, stopParked, lastHead,
                   steady>>

\* scanNext, after the error: case <-bs.sigStop
WaitStop ==
    /\ pc = "wait"
    /\ sigStop > 0
    /\ sigStop' = sigStop - 1
    /\ pc' = "rearm"
    /\ UNCHANGED <<cursor, hdr, outBlocks, inObservedBlocks, delivered, mgr, emits, hist>>

\* scanNext, after the error: case <-time.After(5 * time.Second)
WaitTimeout ==
    /\ pc = "wait"
    /\ sigStop = 0
    /\ pc' = "chkT"
    /\ UNCHANGED <<cursor, hdr, chans, mgr, emits, hist>>

\* The header hdr is put on outBlocks.
Emitted(q) ==
    /\ outBlocks' = Append(q, hdr[1])
    /\ nEmit' = nEmit + 1
    /\ lastEmit' = hdr
    /\ samePhase' = TRUE
    /\ fwdSince' = FALSE

\* SendHeader with a fault: a header that finds the queue full is dropped.
SendHeader_Drop ==
    /\ pc = "send"
    /\ IF Len(outBlocks) < outBlockQueueCapacity
       THEN Emitted(outBlocks)
       ELSE UNCHANGED <<outBlocks, emits>>
    /\ pc' = "sent"
    /\ UNCHANGED <<cursor, hdr, sigStop, inObservedBlocks, delivered, mgr, hist>>

\* scanNext: case bs.outBlocks <- hdr
SendHeader ==
    /\ pc = "send"
    /\ Len(outBlocks) < outBlockQueueCapacity
    /\ Emitted(outBlocks)
    /\ pc' = "sent"
    /\ UNCHANGED <<cursor, hdr, sigStop, inObservedBlocks, delivered, mgr, hist>>

\* SendStop with a fault: the signal is read and not put back.
SendStop_NoReArm ==
    /\ pc = "send"
    /\ sigStop > 0
    /\ sigStop' = sigStop - 1
    /\ pc' = "chkT"
    /\ UNCHANGED <<cursor, hdr, outBlocks, inObservedBlocks, delivered, mgr, emits, hist>>

\* scanNext: case <-bs.sigStop, racing the send
SendStop ==
    /\ pc = "send"
    /\ sigStop > 0
    /\ sigStop' = sigStop - 1
    /\ pc' = "rearm"
    /\ UNCHANGED <<cursor, hdr, outBlocks, inObservedBlocks, delivered, mgr, emits, hist>>

\* scanNext: neither case is ready, the goroutine parks in the select
SendPark ==
    /\ pc = "send"
    /\ Len(outBlocks) >= outBlockQueueCapacity
    /\ sigStop = 0
    /\ pc' = "sendP"
    /\ UNCHANGED <<cursor, hdr, chans, mgr, emits, hist>>

\* scanNext: bs.current += 1
Increment ==
    /\ pc = "sent"
    /\ current' = NextCurrent(current)
    /\ pc' = "chkT"
    /\ UNCHANGED <<state, target, hdr, chans, mgr, emits, hist>>

\* ReArm with a fault: scanNext returns without the send.
ReArm_NoPut ==
    /\ pc = "rearm"
    /\ pc' = "chkT"
    /\ UNCHANGED <<cursor, hdr, chans, mgr, emits, hist>>

\* scanNext: bs.sigStop <- true, after either opportunistic read
ReArm ==
    /\ pc = "rearm"
    /\ sigStop < sigStopCapacity
    /\ sigStop' = sigStop + 1
    /\ pc' = "chkT"
    /\ UNCHANGED <<cursor, hdr, outBlocks, inObservedBlocks, delivered, mgr, emits, hist>>

\* checkTarget
CheckTarget ==
    /\ pc = "chkT"
    /\ IF TargetPassed(state, current, target)
       THEN \E h \in HeadResults, ready \in BOOLEAN :
              /\ target' = top(h)
              /\ scn' = (scn /\ h = Ok(16005003))
              /\ clean' = (clean /\ h.ok /\ h.val >= target)
              /\ lastHead' = h
              /\ steady' = (steady /\ h.ok /\ h.val >= target)
              /\ IF ReachedHead(USub(target', current))
                 THEN /\ state' = blkIsIdling
                      /\ delivered' = Notify(ready, <<state'>>, delivered)
                      /\ samePhase' = FALSE
                      /\ wrapFlip' = (wrapFlip \/ target' < current)
                 ELSE UNCHANGED <<state, delivered, samePhase, wrapFlip>>
       ELSE UNCHANGED <<state, target, delivered, samePhase, scn, clean, lastHead,
                        steady, wrapFlip>>
    /\ pc' = "chkI"
    /\ UNCHANGED <<current, hdr, sigStop, outBlocks, inObservedBlocks, mgr, nEmit,
                   lastEmit, fwdSince, lnb, pullFailed, stopParked, lastFail>>

\* checkIdle
CheckIdle ==
    /\ pc = "chkI"
    /\ IF state = blkIsIdling /\ LostHead(USub(target, current))
       THEN \E ready \in BOOLEAN :
              /\ state' = blkIsScanning
              /\ delivered' = Notify(ready, <<state'>>, delivered)
              /\ samePhase' = FALSE
              /\ clean' = (clean /\ target >= current)
              /\ wrapFlip' = (wrapFlip \/ target < current)
       ELSE UNCHANGED <<state, delivered, samePhase, clean, wrapFlip>>
    /\ pc' = "top"
    /\ UNCHANGED <<current, target, hdr, sigStop, outBlocks, inObservedBlocks, mgr,
                   nEmit, lastEmit, fwdSince, lnb, pullFailed, stopParked, lastFail,
                   lastHead, steady, scn>>

\* --------------------------------------------------------- environment

\* close(): bs.sigStop <- true.  The owner of shutdown calls it once.  A
\* scanner parked in scanNext's send select receives the signal directly.
Close ==
    /\ registered
    /\ ~closeCalled
    /\ pc # "done"
    /\ closeCalled' = TRUE
    /\ stopParked' = (pc \in {"wait", "sendP"})
    /\ scn' = FALSE
    /\ IF pc = "sendP"
       THEN pc' = "rearm" /\ UNCHANGED sigStop
       ELSE sigStop < sigStopCapacity /\ sigStop' = sigStop + 1 /\ UNCHANGED pc
    /\ UNCHANGED <<cursor, hdr, outBlocks, inObservedBlocks, delivered, registered,
                   mgrClosed, emits, lnb, wrapFlip, pullFailed, clean, lastFail, lastHead,
                   steady>>

\* The consumer receives a header from outBlocks.  A scanner parked on the
\* full queue completes its send with that receive.
Consume ==
    /\ outBlocks # <<>>
    /\ IF pc = "sendP"
       THEN Emitted(Tail(outBlocks)) /\ pc' = "sent"
       ELSE outBlocks' = Tail(outBlocks) /\ UNCHANGED <<pc, emits>>
    /\ UNCHANGED <<cursor, hdr, sigStop, inObservedBlocks, delivered, mgr, hist>>

\* The watcher of live blocks sends an observed block id.
Observe ==
    /\ pc \notin {"new", "done"}
    /\ inObservedBlocks = <<>>
    /\ \E bid \in ObservedHeights : inObservedBlocks' = <<bid>>
    /\ UNCHANGED <<pc, cursor, hdr, sigStop, outBlocks, delivered, mgr, emits, hist>>

Next ==
    \/ init
    \/ RunStop
    \/ RunTick
    \/ RunLog
    \/ RunObserved
    \/ RunDefault
    \/ ScanSkip
    \/ PullOk
    \/ PullFail
    \/ WaitStop
    \/ WaitTimeout
    \/ SendHeader
    \/ SendStop
    \/ SendPark
    \/ Increment
    \/ ReArm
    \/ CheckTarget
    \/ CheckIdle
    \/ Close
    \/ Consume
    \/ Observe

Spec == Init /\ [][Next]_vars

\* The steps of the run goroutine (the environment's steps are not among them).
ScannerStep ==
    \/ RunStop \/ RunTick \/ RunLog \/ RunObserved \/ RunDefault
    \/ ScanSkip \/ PullOk \/ PullFail \/ WaitStop \/ WaitTimeout
    \/ SendHeader \/ SendStop \/ SendPark \/ Increment \/ ReArm
    \/ CheckTarget \/ CheckIdle

\* The goroutine keeps running (the 5 second timer fires, calls return), and
\* a select case that is ready again and again is chosen at some point.
LiveSpec == Init /\ [][Next]_vars /\ WF_vars(ScannerStep) /\ SF_vars(RunStop)

\* --------------------------------------------------------------- claims

\* A header is put on outBlocks in this step.
EmitStep == nEmit' # nEmit

\* The height the emitted sequence would continue with, were it gap free.
Expected == IF lastEmit = <<>> THEN start(lnb) ELSE lastEmit[1] + 1

\* C1: within one scanning phase the emitted heights are consecutive: every
\* emit is for height current, the scanner's next step is current := current + 1,
\* and while Scanning nothing else moves current.
C1_PhaseConsecutive ==
    [][ /\ EmitStep =>
             /\ state = blkIsScanning
             /\ lastEmit' = <<current>>
             /\ (samePhase => lastEmit'[1] = lastEmit[1] + 1)
        /\ (pc = "sent" /\ pc' # "sent") => current' = current + 1
        /\ (pc # "new" /\ state = blkIsScanning /\ current' # current) => pc = "sent"
      ]_vars

C1_Witness ==
    /\ samePhase
    /\ nEmit >= 3
    /\ lastEmit = <<start(lnb) + 2>>
    /\ pc = "chkT"
    /\ current = lastEmit[1] + 1

\* C2 (as stated): with every PullHeader call succeeding, the heights emitted
\* over the whole run are start(), start() + 1, ... with no gap.  It is stated
\* here for the runs in which moreover no repository call fails at all, the
\* head never falls and no transition is taken on a wrapped diff: it fails even
\* there.
C2_GapFreeRun ==
    [][(EmitStep /\ clean) => lastEmit'[1] = Expected]_vars

\* C2 (amended): the heights emitted over the whole run are strictly increasing
\* and begin no lower than start(); an emitted height continues the run without
\* a gap unless an observed block moved the cursor since the previous emit (or
\* before the first), and then it lies beyond the gap.  This holds whether or
\* not PullHeader calls fail.
C2_IncreasingRun ==
    [][EmitStep =>
          IF fwdSince THEN lastEmit'[1] > Expected ELSE lastEmit'[1] = Expected]_vars

C2_Witness ==
    /\ clean
    /\ nEmit >= 2
    /\ lastEmit[1] > start(lnb) + nEmit - 1

\* C3: in the scenario (checkpoint 16,005,000, head 16,005,003, every fetch
\* succeeding) the scanner stops advancing only after it emitted 16,005,003.
C3_Scenario ==
    (scn /\ pc = "scan" /\ ~CanScan(state, current, target))
        => lastEmit = <<16005003>>

\* C4 (as stated): LastSeenBlockNumber returned 0: the cursor starts at the
\* default height and the first header emitted has that height.  The second
\* part is stated for the runs in which no repository call fails, the head never
\* falls and no transition is taken on a wrapped diff: it fails even there.
C4_FirstIsDefault ==
    [][ /\ (pc = "new" /\ lnb' = Ok(0)) => current' = defStartingBlockNumber
        /\ (lnb = Ok(0) /\ clean /\ EmitStep /\ nEmit = 0)
              => lastEmit' = <<defStartingBlockNumber>> ]_vars

\* C4 (amended): LastSeenBlockNumber returned 0: the cursor starts at the default
\* height; the first header emitted has that height unless an observed block
\* moved the cursor before it, and then its height is above the default.
C4_FirstFromDefault ==
    [][ /\ (pc = "new" /\ lnb' = Ok(0)) => current' = defStartingBlockNumber
        /\ (lnb = Ok(0) /\ EmitStep /\ nEmit = 0) =>
              IF fwdSince THEN lastEmit'[1] > defStartingBlockNumber
              ELSE lastEmit' = <<defStartingBlockNumber>> ]_vars

C4_Witness ==
    /\ lnb = Ok(0)
    /\ nEmit = 1
    /\ lastEmit = <<defStartingBlockNumber>>

\* C5: once close() was called while the scanner was parked in the wait after a
\* failed fetch or on the full queue, no header is put on outBlocks any more and
\* closed(bs) is called no more than once.
C5_NoEmitAfterStop ==
    [][stopParked => (nEmit' = nEmit /\ mgrClosed' <= 1)]_vars

\* C6: once close() was called, run returns.
C6_StopTerminates == closeCalled ~> (pc = "done")

C6_Witness ==
    /\ pc = "done"
    /\ mgrClosed = 1
    /\ pullFailed
    /\ Len(outBlocks) = outBlockQueueCapacity

\* C7: the state goes from Scanning to Idling exactly in checkTarget with
\* current > target and 0 <= target' - current < hysteresis, and from Idling to
\* Scanning exactly in checkIdle with target - current > hysteresis.
C7_Transitions ==
    [][ /\ (state = blkIsScanning /\ state' = blkIsIdling) <=>
              /\ pc = "chkT" /\ pc' = "chkI"
              /\ state = blkIsScanning
              /\ current > target
              /\ target' - current >= 0
              /\ target' - current < blkScannerHysteresis
        /\ (state = blkIsIdling /\ state' = blkIsScanning) <=>
              /\ pc = "chkI" /\ pc' = "top"
              /\ state = blkIsIdling
              /\ target - current > blkScannerHysteresis
      ]_vars

\* C8: no step changes the state while target - current is and stays equal to
\* the hysteresis.
C8_NoFlipAtBoundary ==
    [][(target - current = blkScannerHysteresis
          /\ target' - current' = blkScannerHysteresis) => state' = state]_vars

C8_Witness ==
    /\ pc = "top"
    /\ state = blkIsIdling
    /\ target - current = blkScannerHysteresis

\* C9: handling an observed block id bid sets current to bid if the state is
\* Idling and bid > current, leaves current alone otherwise, and leaves target
\* and state alone.
C9_ObservedBlock ==
    [][(pc = "top" /\ inObservedBlocks # <<>> /\ inObservedBlocks' = <<>>) =>
          /\ current' = IF state = blkIsIdling /\ inObservedBlocks[1] > current
                        THEN inObservedBlocks[1] ELSE current
          /\ target' = target
          /\ state' = state]_vars

C9_Witness ==
    /\ pc = "scan"
    /\ state = blkIsIdling
    /\ fwdSince
    /\ current \in ObservedHeights
    /\ inObservedBlocks = <<>>

\* C10: sigStop never holds more than one signal, the re-arm finds the slot
\* empty, and from close() until run returns the signal is in the slot except
\* between an opportunistic read and its re-arm.
C10_StopSlot ==
    /\ sigStop <= sigStopCapacity
    /\ (pc = "rearm" => sigStop = 0)
    /\ (closeCalled /\ pc \notin {"rearm", "done"}) => sigStop = 1

C10_Witness ==
    /\ pc = "chkT"
    /\ stopParked
    /\ sigStop = 1

\* C11: no step lowers current.
C11_NeverRewound == [][current' >= current]_vars

C11_Witness ==
    /\ nEmit >= 1
    /\ fwdSince
    /\ current \in ObservedHeights
    /\ current > lastEmit[1] + 1

\* C13: a header is fetched and put on outBlocks only while the state is
\* Scanning, and its height is below target, at the fetch and at the send.
C13_EmitBelowTarget ==
    [][ /\ (pc = "scan" /\ pc' \in {"send", "wait"}) =>
              (state = blkIsScanning /\ current < target)
        /\ (pc' = "send" /\ pc # "send") => (hdr' = <<current>> /\ current < target)
        /\ EmitStep =>
              /\ state = blkIsScanning /\ state' = blkIsScanning
              /\ lastEmit' = hdr
              /\ lastEmit'[1] < target
      ]_vars

C13_Witness ==
    /\ pc = "sent"
    /\ state = blkIsScanning
    /\ lastEmit = <<target - 1>>
    /\ nEmit >= 2

\* C14: checkIdle leaves Idling only if target - current > hysteresis as
\* integers; with target <= current it leaves the state Idling.
C14_IdleRecovery ==
    [][ /\ (state = blkIsIdling /\ state' = blkIsScanning) =>
              target - current > blkScannerHysteresis
        /\ (pc = "chkI" /\ pc' = "top" /\ state = blkIsIdling /\ target <= current) =>
              state' = blkIsIdling
      ]_vars

\* C15: outBlocks never holds more than its capacity; a header that finds the
\* queue full is kept until it is enqueued or the stop signal is read; current
\* is incremented exactly after the header for current was enqueued, and a
\* header given up for the stop signal leaves current as it is.
C15_Backpressure ==
    [][ /\ Len(outBlocks') <= outBlockQueueCapacity
        /\ (pc \in {"send", "sendP"} /\ pc' \notin {"send", "sendP"}) =>
              \/ /\ pc' = "sent"
                 /\ EmitStep
                 /\ outBlocks'[Len(outBlocks')] = hdr[1]
                 /\ current' = current
              \/ /\ pc' = "rearm"
                 /\ ~EmitStep
                 /\ current' = current
        /\ (pc = "send" /\ Len(outBlocks) >= outBlockQueueCapacity) => ~EmitStep
        /\ (pc = "sent" /\ pc' # "sent") =>
              (lastEmit = <<current>> /\ current' = current + 1)
        /\ (pc = "rearm" /\ pc' # "rearm") => current' = current
        /\ (pc # "new" /\ state = blkIsScanning /\ current' # current) => pc = "sent"
      ]_vars

C15_Witness ==
    /\ pc = "chkT"
    /\ Len(outBlocks) = outBlockQueueCapacity
    /\ nEmit = outBlockQueueCapacity + 1
    /\ lastEmit = <<current - 1>>
    /\ outBlocks[Len(outBlocks)] = current - 1

\* C16: a transition writes the state and moves on whether or not the listener
\* takes the notification: the step is enabled, it can be taken without a
\* delivery and with one, and the listener has then either the new state or
\* what it had.
C16_BestEffort ==
    [][ /\ (pc = "chkT") => ENABLED CheckTarget
        /\ (pc = "chkI") => ENABLED CheckIdle
        /\ (pc = "chkI" /\ state = blkIsIdling /\ LostHead(USub(target, current))) =>
              /\ ENABLED (CheckIdle /\ state' = blkIsScanning /\ delivered' = delivered)
              /\ ENABLED (CheckIdle /\ state' = blkIsScanning /\ delivered' = <<blkIsScanning>>)
        /\ (pc = "chkT" /\ state = blkIsScanning /\ state' = blkIsIdling) =>
              /\ ENABLED (CheckTarget /\ state' = blkIsIdling /\ delivered' = delivered)
              /\ ENABLED (CheckTarget /\ state' = blkIsIdling /\ delivered' = <<blkIsIdling>>)
        /\ (state' # state) =>
              /\ delivered' \in {delivered, <<state'>>}
              /\ (pc = "chkT" /\ pc' = "chkI") \/ (pc = "chkI" /\ pc' = "top")
      ]_vars

C16_Witness ==
    /\ state = blkIsIdling
    /\ delivered = <<>>
    /\ pc = "chkI"

\* A fetch: scanNext calls PullHeader(current) in this step.
FetchStep == pc = "scan" /\ pc' \in {"send", "wait"}

\* The failure path of scanNext writes nothing of the cursor, emits nothing and
\* does not end the loop.
FailureFrame ==
    /\ (pc' = "wait" \/ pc = "wait") =>
          (UNCHANGED cursor /\ ~EmitStep /\ pc' \in {"wait", "rearm", "chkT"})
    /\ (pc' = "wait" /\ pc = "scan") => (hdr' = <<>> /\ lastFail' = <<current, FALSE>>)

\* C12 (as stated): a failed PullHeader(current) emits nothing, leaves current,
\* target and state alone and does not end the loop, and the next fetch asks
\* for the same height.  The last part is stated for the runs in which no
\* transition was taken on a wrapped diff: it fails even there.
C12_RetrySameHeight ==
    [][ /\ FailureFrame
        /\ (FetchStep /\ lastFail # <<>> /\ ~wrapFlip) => current = lastFail[1] ]_vars

\* C12 (amended): a failed PullHeader(current) emits nothing, leaves current,
\* target and state alone and does not end the loop; the next fetch asks for the
\* same height unless an observed block moved current in between (in an Idling
\* phase), and then it asks for a higher one.
C12_RetryUnlessMoved ==
    [][ /\ FailureFrame
        /\ (FetchStep /\ lastFail # <<>>) =>
              IF lastFail[2] THEN current > lastFail[1]
              ELSE current = lastFail[1] ]_vars

C12_Witness ==
    /\ pc = "send"
    /\ hdr = <<current>>
    /\ pullFailed
    /\ nEmit = 0
    /\ ~fwdSince
    /\ current = start(lnb)
    /\ state = blkIsScanning

\* C17: init ends for every answer of the repository, with current = 0 if
\* LastSeenBlockNumber failed and its value if that is not 0, target = 0 if
\* CurrentHead failed and the head otherwise, the state Scanning and the scanner
\* registered with the manager.
C17_InitFallbacks ==
    [][ /\ (pc = "new") =>
              \A ls \in LastSeenResults, h \in HeadResults :
                 ENABLED (init /\ lnb' = ls /\ lastHead' = h)
        /\ (pc = "new" /\ pc' # "new") =>
              /\ pc' = "top"
              /\ registered'
              /\ state' = blkIsScanning
              /\ current' = (IF ~lnb'.ok THEN 0
                             ELSE IF lnb'.val # 0 THEN lnb'.val
                             ELSE defStartingBlockNumber)
              /\ target' = (IF ~lastHead'.ok THEN 0 ELSE lastHead'.val)
      ]_vars

C17_Witness ==
    /\ pc = "top"
    /\ registered
    /\ ~lnb.ok
    /\ ~lastHead.ok
    /\ current = 0
    /\ target = 0
    /\ state = blkIsScanning
    /\ nEmit = 0
    /\ ~closeCalled

====
